---- MODULE Spec2Model ----
(***************************************************************************)
(* A model of two kernels of TurboTransformers:                            *)
(*   - SoftmaxMask (fast_transformers/layers/kernels/softmax.cpp), the     *)
(*     masked, scaled, row-parallel softmax;                               *)
(*   - PositionwiseFeedForward::operator()                                 *)
(*     (turbo_transformers/layers/positionwise_ffn.cpp), the fused         *)
(*     feed-forward sublayer.                                              *)
(*                                                                         *)
(* Floats of the softmax are fixed-point numbers with Scale units to 1.0,  *)
(* so that g_epsilon = 1e-6 is exactly one unit; +inf and NaN are two      *)
(* reserved values.                                                        *)
(***************************************************************************)
EXTENDS Integers, Sequences, FiniteSets, TLC

(***************************************************************************)
(* Bounds of the model.                                                    *)
(***************************************************************************)
MaxBatch == 2
MaxHeads == 2
MaxSeq == 2
MaxRows == 8
NumThreads == 2
MaxModelDim == 2
MaxDff == 2
NumCalls == 2

(***************************************************************************)
(* Fixed-point floats.                                                     *)
(***************************************************************************)
Scale == 10^6
PosInf == 2 * 10^9
NaN == 0 - 2 * 10^9
IsFinite(x) == x # PosInf /\ x # NaN
Fix(n) == n * Scale

\* static constexpr float g_epsilon = 1e-6f;
g_epsilon == 1

\* std::exp on float: overflows to +inf above ~88.72, underflows to 0 below
\* ~-103.97.  In between, floor(Scale * e^v) for the integral arguments v the
\* inputs of the model produce.
ExpOverflowArg == 88
ExpUnderflowArg == 0 - 104
ExpTable(v) ==
    CASE v = 2 -> 7389056
      [] v = 1 -> 2718281
      [] v = 0 -> 1000000
      [] v = -1 -> 367879
      [] v = -2 -> 135335
      [] v = -3 -> 49787
      [] v = -4 -> 18315
      [] v = -5 -> 6737
      [] v = -6 -> 2478
      [] v = -7 -> 911
      [] v = -8 -> 335
      [] v = -9 -> 123
      [] v = -10 -> 45
      [] v = -11 -> 16
      [] v = -12 -> 6
      [] v = -13 -> 2
      [] v = -14 -> 0
      [] v < -14 -> 0
Exp(x) ==
    IF x = NaN THEN NaN
    ELSE IF x = PosInf THEN PosInf
    ELSE LET v == x \div Scale IN
         IF v > ExpOverflowArg THEN PosInf
         ELSE IF v < ExpUnderflowArg THEN 0
         ELSE ExpTable(v)

\* a + b on floats (no -inf arises: every addend is a finite input or an
\* exponential).
FAdd(a, b) ==
    IF a = NaN \/ b = NaN THEN NaN
    ELSE IF a = PosInf \/ b = PosInf THEN PosInf
    ELSE a + b

\* floor(r * 10^n / c) for 0 <= r < c, by long division (the products of the
\* fixed-point numbers do not fit the model checker's integers).
RECURSIVE FracDigits(_, _, _)
FracDigits(r, c, n) ==
    IF n = 0 THEN 0
    ELSE LET t == r * 10 IN
         (t \div c) * 10^(n - 1) + FracDigits(t % c, c, n - 1)
\* floor(a * Scale / c), a >= 0, c > 0.  A quotient of FixRange or more does
\* not fit the fixed-point numbers and is kept as +inf; an exponential divided
\* by the sum it is part of is never more than 1.0.
FixRange == 2 * 10^3
FixDiv(a, c) ==
    IF a \div c >= FixRange THEN PosInf
    ELSE (a \div c) * Scale + FracDigits(a % c, c, 6)

\* auto coef = 1.0f / (sum + g_epsilon): the reciprocal is kept by its
\* denominator; den = PosInf is the float 0.0 (1/inf), den = NaN is NaN.
Coef(sum) == FAdd(sum, g_epsilon)
\* qk_buf_ptr[j] *= coef, for an exponential e >= 0
MulCoef(e, den) ==
    IF e = NaN \/ den = NaN THEN NaN
    ELSE IF den = PosInf THEN (IF e = PosInf THEN NaN ELSE 0)
    ELSE IF e = PosInf THEN PosInf
    ELSE FixDiv(e, den)

(***************************************************************************)
(* Tensors and the kernels PositionwiseFeedForward calls.  The values of   *)
(* the feed-forward tensors are fixed-point numbers with FUnit units to    *)
(* 1.0; the dense weights and the layer-norm weight are whole numbers.     *)
(***************************************************************************)
FUnit == 10^2
\* the contents of freshly allocated memory
Uninit == 0 - 10^5

RECURSIVE Prod(_)
Prod(shape) == IF shape = <<>> THEN 1 ELSE Head(shape) * Prod(Tail(shape))
\* Tensor::numel(); a tensor constructed from nullptr has no elements
Numel(t) == IF t.shape = <<>> THEN 0 ELSE Prod(t.shape)
\* core::Tensor t(nullptr)
NullTensor == [shape |-> <<>>, data |-> [i \in {} |-> 0]]
\* Tensor::shape(-1)
LastDim(t) == t.shape[Len(t.shape)]

\* Tensor::Reshape<float>(shape, device, id): new memory when the shape needs
\* more elements than the tensor holds, else the same memory under the new
\* shape.
Reshape(t, shape) ==
    [shape |-> shape,
     data |-> [i \in 0..(Prod(shape) - 1) |->
                 IF Prod(shape) > Numel(t) THEN Uninit ELSE t.data[i]]]

\* core::Copy<float>(src, dst)
Copy(src, dst) ==
    [shape |-> dst.shape,
     data |-> [i \in DOMAIN dst.data |->
                 IF i \in DOMAIN src.data THEN src.data[i] ELSE Uninit]]

\* f[0] + ... + f[n-1]
RECURSIVE SumFn(_, _)
SumFn(f, n) == IF n = 0 THEN 0 ELSE f[n - 1] + SumFn(f, n - 1)

\* the integer square root of n in lo..hi
RECURSIVE ISqrtIn(_, _, _)
ISqrtIn(n, lo, hi) ==
    IF lo >= hi THEN lo
    ELSE LET mid == (lo + hi + 1) \div 2 IN
         IF mid * mid <= n THEN ISqrtIn(n, mid, hi) ELSE ISqrtIn(n, lo, mid - 1)
ISqrt(n) == ISqrtIn(n, 0, IF n < 40000 THEN n ELSE 40000)
\* a / b rounded towards zero, b > 0
DivZ(a, b) == IF a >= 0 THEN a \div b ELSE 0 - ((0 - a) \div b)

\* kernels::LayerNorm<float>(weight, bias, &t): every row of t (its last
\* dimension) is standardized, (x - mean) / sqrt(var + eps), then scaled and
\* shifted.  With c[j] = D*x[j] - sum(x) this is c[j] / sqrt(sum(c^2)/D + eps).
LayerNormOk(weight, bias, t) ==
    Numel(weight) = LastDim(t) /\ Numel(bias) = LastDim(t)
LayerNorm(weight, bias, t) ==
    LET D == LastDim(t)
        c == [i \in DOMAIN t.data |->
                D * t.data[i]
                - SumFn([j \in 0..(D - 1) |-> t.data[(i \div D) * D + j]], D)]
        q == [i \in DOMAIN t.data |->
                SumFn([j \in 0..(D - 1) |->
                         c[(i \div D) * D + j] * c[(i \div D) * D + j]], D) \div D]
    IN [shape |-> t.shape,
        data |-> [i \in DOMAIN t.data |->
                    weight.data[i % D] * DivZ(FUnit * c[i], ISqrt(q[i] + 1))
                    + bias.data[i % D]]]

\* kernels::MatMul(A, false, B, b_trans, 1.0, &out, 0.0): out = A x op(B), A
\* taken as [numel / shape(-1), shape(-1)].  The kernel enforces that the
\* inner dimensions agree and that out holds M x N elements.
MatRows(t) == Numel(t) \div LastDim(t)
MatN(B, b_trans) == IF b_trans THEN MatRows(B) ELSE LastDim(B)
MatK(B, b_trans) == IF b_trans THEN LastDim(B) ELSE MatRows(B)
MatMulOk(A, B, b_trans, out) ==
    /\ LastDim(A) = MatK(B, b_trans)
    /\ Numel(out) = MatRows(A) * MatN(B, b_trans)
MatMul(A, B, b_trans, out) ==
    LET K == LastDim(A)
        n == MatN(B, b_trans)
    IN [shape |-> out.shape,
        data |-> [i \in DOMAIN out.data |->
                    SumFn([k \in 0..(K - 1) |->
                             A.data[(i \div n) * K + k]
                             * (IF b_trans THEN B.data[(i % n) * K + k]
                                ELSE B.data[k * n + (i % n)])], K)]]

\* kernels::AddBiasAct<float, Relu>(bias, &t)
AddBiasActOk(bias, t) == Numel(bias) = LastDim(t)
AddBiasAct(bias, t) ==
    [shape |-> t.shape,
     data |-> [i \in DOMAIN t.data |->
                 LET v == t.data[i] + bias.data[i % LastDim(t)] IN
                 IF v > 0 THEN v ELSE 0]]

\* kernels::AddInputBias(input, bias_out, bias, out): the data written to out,
\* out[i] = input[i] + bias_out[i] + bias[i % model_dim]
AddInputBias(input, bias_out, bias) ==
    [i \in DOMAIN input.data |->
        input.data[i] + bias_out.data[i] + bias.data[i % LastDim(input)]]

(***************************************************************************)
(* The state of PositionwiseFeedForward calls                              *)
(***************************************************************************)
VARIABLES
    layer,             \* the layer object: dense_weight_1_, dense_bias_1_,
                       \* dense_weight_2_, dense_bias_2_, layer_norm_weight_,
                       \* layer_norm_bias_
    with_perftools,    \* whether the build defines WITH_PERFTOOLS
    profiler,          \* core::Profiler::GetInstance(), the process's singleton
    tensors,           \* the callers' tensors, by identity
    call,              \* per call: its arguments, its position and the stages
                       \* it ran
    input_tensor_copy, \* per call: the local input_tensor_copy
    temp_tensor,       \* per call: the local temp_tensor
    entry              \* the tensors and the layer when the calls were entered

ffnVars == <<layer, with_perftools, profiler, tensors, call, input_tensor_copy,
             temp_tensor, entry>>

\* no feed-forward call
FfnIdle ==
    /\ layer = <<>>
    /\ with_perftools = FALSE
    /\ profiler = <<>>
    /\ tensors = <<>>
    /\ call = <<>>
    /\ input_tensor_copy = <<>>
    /\ temp_tensor = <<>>
    /\ entry = <<>>

(***************************************************************************)
(* SoftmaxMask                                                             *)
(***************************************************************************)
VARIABLES
    batch_size, head_num, seq_len, scaler,  \* the call's arguments
    qk_buf,      \* the score buffer, mutated in place: [0..M*N-1 -> float]
    attr_mask,   \* the mask: [0..batch_size*seq_len-1 -> float]
    qk_in,       \* the contents of qk_buf at call entry
    next_row,    \* the next iteration of the parallel for not yet handed out
    row_pc,      \* per row i: the position of iteration i in the loop body
    sum,         \* per row i: the accumulator `sum` of iteration i
    acc          \* per row: the indices of qk_buf and attr_mask it accessed

smVars == <<batch_size, head_num, seq_len, scaler, qk_buf, attr_mask, qk_in,
            next_row, row_pc, sum, acc>>

\* int64_t M = batch_size * head_num * seq_len;  int64_t N = seq_len;
M == batch_size * head_num * seq_len
N == seq_len

\* float* qk_buf_ptr = qk_buf + i * N;  qk_buf_ptr[j]
QkIdx(i, j) == i * N + j
\* auto attr_mask_offset = i / (head_num * seq_len) * seq_len;
AttrMaskOffsetNoBatch(i) == 0
attr_mask_offset(i) == (i \div (head_num * seq_len)) * seq_len
\* attr_mask_ptr[j]
MaskIdx(i, j) == attr_mask_offset(i) + j

\* `float sum = 0.;` is declared in the body of the parallel loop: each
\* iteration i has its own.
SumSlotShared(i) == 0
SumSlot(i) == i

Cols == 0..(N - 1)

\* lines 21-26: qk_val = qk_val * scaler + mask_val; qk_buf_ptr[j] = exp(qk_val)
ExpElem(buf, mask, i, j) ==
    Exp(FAdd(buf[QkIdx(i, j)] * scaler, mask[MaskIdx(i, j)]))
ExpRow(buf, mask, i) ==
    [idx \in DOMAIN buf |->
        IF idx \in {QkIdx(i, j) : j \in Cols}
        THEN ExpElem(buf, mask, i, idx - i * N)
        ELSE buf[idx]]

\* lines 27-31: sum += qk_buf_ptr[j], j = 0..N-1
RECURSIVE SumFrom(_, _, _)
SumFrom(buf, i, j) ==
    IF j = N THEN 0 ELSE FAdd(buf[QkIdx(i, j)], SumFrom(buf, i, j + 1))
SumRow(buf, i) == SumFrom(buf, i, 0)

\* lines 32-36: coef = 1.0f / (sum + g_epsilon); qk_buf_ptr[j] *= coef
NormRowNoCoef(buf, i, s) == buf
NormRow(buf, i, s) ==
    [idx \in DOMAIN buf |->
        IF idx \in {QkIdx(i, j) : j \in Cols}
        THEN MulCoef(buf[idx], Coef(s))
        ELSE buf[idx]]

\* The inputs.  A score buffer is zero everywhere (scaled by 1), but for a 1.0
\* at its first index (scaled by 2) or a 100.0 at its last (scaled by 1: its
\* exponential overflows); a mask is uniform, or allows every key position but
\* one, or suppresses every key position but the last.
MaskAllow == Fix(0)
MaskSmall == Fix(0 - 7)
MaskSuppress == Fix(0 - 1000)
OneOff(n, b, v, pos) ==
    {[idx \in 0..(n - 1) |-> IF idx = p THEN v ELSE b] : p \in pos}
ScoreInputs(n) ==
    {<<buf, 1>> : buf \in OneOff(n, Fix(0), Fix(0), {0})}
    \cup {<<buf, 2>> : buf \in OneOff(n, Fix(0), Fix(1), {0})}
    \cup {<<buf, 1>> : buf \in OneOff(n, Fix(0), Fix(100), {n - 1})}
MaskInputs(n) ==
    UNION {OneOff(n, v, v, {0}) : v \in {MaskAllow, MaskSmall, MaskSuppress}}
    \cup OneOff(n, MaskAllow, MaskSuppress, {0, n - 1})
    \cup OneOff(n, MaskSuppress, MaskAllow, {n - 1})

Rows == 0..(M - 1)
\* the iterations some thread of the team is running
Running == {i \in Rows : row_pc[i] \in {"exp", "sum", "norm"}}

SoftmaxInit ==
    /\ FfnIdle
    /\ batch_size \in 1..MaxBatch
    /\ head_num \in 1..MaxHeads
    /\ seq_len \in 1..MaxSeq
    /\ M <= MaxRows
    /\ \E in \in ScoreInputs(M * N) : qk_buf = in[1] /\ scaler = in[2]
    /\ attr_mask \in MaskInputs(batch_size * seq_len)
    /\ qk_in = qk_buf
    /\ next_row = 0
    /\ row_pc = [i \in Rows |-> "todo"]
    /\ sum = [i \in Rows |-> 0]
    /\ acc = [i \in Rows |-> [qk |-> {}, mask |-> {}]]

smArgs == <<batch_size, head_num, seq_len, scaler, attr_mask, qk_in>>

\* #pragma omp parallel for / for (i = 0; i < M; ++i): a thread of the team
\* that runs no iteration takes the next one.
TakeRow ==
    /\ Cardinality(Running) < NumThreads
    /\ next_row < M
    /\ row_pc' = [row_pc EXCEPT ![next_row] = "exp"]
    /\ next_row' = next_row + 1
    /\ UNCHANGED <<smArgs, qk_buf, sum, acc, ffnVars>>

\* lines 17-26
ExpPass(i) ==
    /\ row_pc[i] = "exp"
    /\ qk_buf' = ExpRow(qk_buf, attr_mask, i)
    /\ acc' = [acc EXCEPT ![i] =
                 [qk |-> @.qk \cup {QkIdx(i, j) : j \in Cols},
                  mask |-> @.mask \cup {MaskIdx(i, j) : j \in Cols}]]
    /\ row_pc' = [row_pc EXCEPT ![i] = "sum"]
    /\ UNCHANGED <<smArgs, next_row, sum, ffnVars>>

\* lines 27-31
SumPass(i) ==
    /\ row_pc[i] = "sum"
    /\ sum' = [sum EXCEPT ![SumSlot(i)] = SumRow(qk_buf, i)]
    /\ acc' = [acc EXCEPT ![i].qk = @ \cup {QkIdx(i, j) : j \in Cols}]
    /\ row_pc' = [row_pc EXCEPT ![i] = "norm"]
    /\ UNCHANGED <<smArgs, next_row, qk_buf, ffnVars>>

\* lines 32-36, and the end of the iteration (where `sum` goes out of scope)
NormPass(i) ==
    /\ row_pc[i] = "norm"
    /\ qk_buf' = NormRow(qk_buf, i, sum[SumSlot(i)])
    /\ acc' = [acc EXCEPT ![i].qk = @ \cup {QkIdx(i, j) : j \in Cols}]
    /\ row_pc' = [row_pc EXCEPT ![i] = "done"]
    /\ sum' = [sum EXCEPT ![SumSlot(i)] = 0]
    /\ UNCHANGED <<smArgs, next_row, ffnVars>>

SoftmaxNext ==
    \/ TakeRow
    \/ \E i \in Rows : ExpPass(i)
    \/ \E i \in Rows : SumPass(i)
    \/ \E i \in Rows : NormPass(i)

vars == <<smVars, ffnVars>>

SoftmaxSpec == SoftmaxInit /\ [][SoftmaxNext]_vars

\* no softmax call
SmIdle ==
    /\ batch_size = 0 /\ head_num = 0 /\ seq_len = 0 /\ scaler = 0
    /\ qk_buf = <<>> /\ attr_mask = <<>> /\ qk_in = <<>>
    /\ next_row = 0 /\ row_pc = <<>> /\ sum = <<>> /\ acc = <<>>

(***************************************************************************)
(* PositionwiseFeedForward::operator()                                     *)
(***************************************************************************)
Calls == DOMAIN call
\* the identities of the tensors call c is given
InId(c) == 2 * c - 1
OutId(c) == 2 * c

\* auto d_ff = is_trans_weight ? dense_weight_1_.shape(0)
\*                             : dense_weight_1_.shape(1);
DffSwapped(c) ==
    IF call[c].is_trans_weight THEN layer.dense_weight_1_.shape[2]
    ELSE layer.dense_weight_1_.shape[1]
d_ff(c) ==
    IF call[c].is_trans_weight THEN layer.dense_weight_1_.shape[1]
    ELSE layer.dense_weight_1_.shape[2]
\* auto model_dim_weight = is_trans_weight ? dense_weight_1_.shape(1)
\*                                         : dense_weight_1_.shape(0);
model_dim_weight(c) ==
    IF call[c].is_trans_weight THEN layer.dense_weight_1_.shape[2]
    ELSE layer.dense_weight_1_.shape[1]
\* auto model_dim = input_tensor.shape(2);
model_dim(c) == tensors[call[c].input].shape[3]
\* TT_ENFORCE_EQ(model_dim_weight, model_dim, ...)
EnforceSkipped(c) == TRUE
EnforceModelDim(c) == model_dim_weight(c) = model_dim(c)
\* auto batch_size = input_tensor.shape(0); auto input_len = input_tensor.shape(1);
ffn_batch_size(c) == tensors[call[c].input].shape[1]
input_len(c) == tensors[call[c].input].shape[2]

\* input_tensor_copy and temp_tensor are locals of operator(): each call has
\* its own.
LocalShared(c) == 1
Local(c) == c

\* the statements of operator() after the validation, in their order
StageOrderSwapped ==
    <<"stage", "copy", "reshape_output", "layer_norm", "gemm0", "gemm1",
      "add_bias_act", "add_input_bias", "done">>
StageOrder ==
    <<"stage", "copy", "reshape_output", "layer_norm", "gemm0", "add_bias_act",
      "gemm1", "add_input_bias", "done">>
NextStage(pc) ==
    StageOrder[1 + CHOOSE k \in 1..(Len(StageOrder) - 1) : StageOrder[k] = pc]

\* Profiler::start_profile(name) and Profiler::end_profile(name), counted
ProfNames ==
    {"PositionwiseFeedForward", "ffn/Copy", "ffn/LayerNorm", "ffn/gemm0",
     "fnn/AddBiasAct", "ffn/AddBiasAct", "ffn/gemm1", "ffn/AddInputBias"}
ProfilerIdle == [n \in ProfNames |-> [starts |-> 0, ends |-> 0]]
start_profile(p, name) == [p EXCEPT ![name].starts = @ + 1]
end_profile(p, name) == [p EXCEPT ![name].ends = @ + 1]
\* the #ifdef WITH_PERFTOOLS blocks: `ended` is closed, then `started` opened
RECURSIVE StartAll(_, _)
StartAll(p, names) ==
    IF names = <<>> THEN p
    ELSE StartAll(start_profile(p, Head(names)), Tail(names))
RECURSIVE EndAll(_, _)
EndAll(p, names) ==
    IF names = <<>> THEN p ELSE EndAll(end_profile(p, Head(names)), Tail(names))
Profile(ended, started) ==
    profiler' = IF with_perftools
                THEN StartAll(EndAll(profiler, ended), started)
                ELSE profiler

\* the call moves on to the next statement, or fails in the one it is at
Advance(c, ok) ==
    call' = [call EXCEPT ![c].pc = IF ok THEN NextStage(@) ELSE "failed",
                         ![c].trace = Append(@, call[c].pc)]

\* lines 34-50: the dimensions and the validation
Validate(c) ==
    /\ call[c].pc = "validate"
    /\ call' = [call EXCEPT
                  ![c].pc = IF EnforceModelDim(c) THEN "stage" ELSE "failed",
                  ![c].trace = Append(@, "validate")]
    /\ UNCHANGED <<layer, with_perftools, profiler, tensors,
                   input_tensor_copy, temp_tensor, entry, smVars>>

\* lines 51-61: the two temporaries
StageBuffers(c) ==
    /\ call[c].pc = "stage"
    /\ Profile(<<>>, <<"PositionwiseFeedForward", "ffn/Copy">>)
    /\ input_tensor_copy' =
          [input_tensor_copy EXCEPT ![Local(c)] =
              Reshape(NullTensor,
                      <<ffn_batch_size(c), input_len(c), model_dim(c)>>)]
    /\ temp_tensor' =
          [temp_tensor EXCEPT ![Local(c)] =
              Reshape(NullTensor, <<ffn_batch_size(c) * input_len(c), d_ff(c)>>)]
    /\ Advance(c, TRUE)
    /\ UNCHANGED <<layer, with_perftools, tensors, entry, smVars>>

\* line 64: core::Copy<float>(input_tensor, input_tensor_copy)
CopyInput(c) ==
    /\ call[c].pc = "copy"
    /\ input_tensor_copy' =
          [input_tensor_copy EXCEPT ![Local(c)] =
              Copy(tensors[call[c].input], @)]
    /\ Advance(c, TRUE)
    /\ UNCHANGED <<layer, with_perftools, profiler, tensors, temp_tensor,
                   entry, smVars>>

\* lines 66-71: output_tensor->Reshape<float>({batch_size, input_len, model_dim})
ReshapeOutput(c) ==
    /\ call[c].pc = "reshape_output"
    /\ tensors' =
          [tensors EXCEPT ![call[c].output] =
              Reshape(@, <<ffn_batch_size(c), input_len(c), model_dim(c)>>)]
    /\ Profile(<<"ffn/Copy">>, <<"ffn/LayerNorm">>)
    /\ Advance(c, TRUE)
    /\ UNCHANGED <<layer, with_perftools, input_tensor_copy, temp_tensor,
                   entry, smVars>>

\* lines 72-77: LayerNorm(layer_norm_weight_, layer_norm_bias_, &input_tensor_copy)
LayerNormStep(c) ==
    /\ call[c].pc = "layer_norm"
    /\ LET ok == LayerNormOk(layer.layer_norm_weight_, layer.layer_norm_bias_,
                             input_tensor_copy[Local(c)])
       IN /\ input_tensor_copy' =
                IF ok
                THEN [input_tensor_copy EXCEPT ![Local(c)] =
                        LayerNorm(layer.layer_norm_weight_,
                                  layer.layer_norm_bias_, @)]
                ELSE input_tensor_copy
          /\ Advance(c, ok)
          /\ IF ok THEN Profile(<<"ffn/LayerNorm">>, <<"ffn/gemm0">>)
             ELSE UNCHANGED profiler
    /\ UNCHANGED <<layer, with_perftools, tensors, temp_tensor, entry, smVars>>

\* lines 78-85: MatMul(input_tensor_copy, false, dense_weight_1_,
\*                     is_trans_weight, 1.0, &temp_tensor, 0.0)
Gemm0(c) ==
    /\ call[c].pc = "gemm0"
    /\ LET ok == MatMulOk(input_tensor_copy[Local(c)], layer.dense_weight_1_,
                          call[c].is_trans_weight, temp_tensor[Local(c)])
       IN /\ temp_tensor' =
                IF ok
                THEN [temp_tensor EXCEPT ![Local(c)] =
                        MatMul(input_tensor_copy[Local(c)],
                               layer.dense_weight_1_,
                               call[c].is_trans_weight, @)]
                ELSE temp_tensor
          /\ Advance(c, ok)
          /\ IF ok THEN Profile(<<"ffn/gemm0">>, <<"fnn/AddBiasAct">>)
             ELSE UNCHANGED profiler
    /\ UNCHANGED <<layer, with_perftools, tensors, input_tensor_copy, entry,
                   smVars>>

\* lines 86-91: AddBiasAct<float, Relu>(dense_bias_1_, &temp_tensor)
AddBiasActStep(c) ==
    /\ call[c].pc = "add_bias_act"
    /\ LET ok == AddBiasActOk(layer.dense_bias_1_, temp_tensor[Local(c)])
       IN /\ temp_tensor' =
                IF ok
                THEN [temp_tensor EXCEPT ![Local(c)] =
                        AddBiasAct(layer.dense_bias_1_, @)]
                ELSE temp_tensor
          /\ Advance(c, ok)
          /\ IF ok THEN Profile(<<"ffn/AddBiasAct">>, <<"ffn/gemm1">>)
             ELSE UNCHANGED profiler
    /\ UNCHANGED <<layer, with_perftools, tensors, input_tensor_copy, entry,
                   smVars>>

\* lines 92-97: MatMul(temp_tensor, false, dense_weight_2_, is_trans_weight,
\*                     1.0, &input_tensor_copy, 0.0)
Gemm1(c) ==
    /\ call[c].pc = "gemm1"
    /\ LET ok == MatMulOk(temp_tensor[Local(c)], layer.dense_weight_2_,
                          call[c].is_trans_weight, input_tensor_copy[Local(c)])
       IN /\ input_tensor_copy' =
                IF ok
                THEN [input_tensor_copy EXCEPT ![Local(c)] =
                        MatMul(temp_tensor[Local(c)], layer.dense_weight_2_,
                               call[c].is_trans_weight, @)]
                ELSE input_tensor_copy
          /\ Advance(c, ok)
          /\ IF ok THEN Profile(<<"ffn/gemm1">>, <<"ffn/AddInputBias">>)
             ELSE UNCHANGED profiler
    /\ UNCHANGED <<layer, with_perftools, tensors, temp_tensor, entry, smVars>>

\* lines 98-103: AddInputBias(input_tensor, input_tensor_copy, dense_bias_2_,
\*                           output_tensor)
ResidualDestInput(c) == call[c].input
ResidualDest(c) == call[c].output
ResidualOfCopy(c) ==
    AddInputBias(input_tensor_copy[Local(c)], input_tensor_copy[Local(c)],
                 layer.dense_bias_2_)
Residual(c) ==
    AddInputBias(tensors[call[c].input], input_tensor_copy[Local(c)],
                 layer.dense_bias_2_)
AddInputBiasStep(c) ==
    /\ call[c].pc = "add_input_bias"
    /\ tensors' = [tensors EXCEPT ![ResidualDest(c)].data = Residual(c)]
    /\ Profile(<<"ffn/AddInputBias", "PositionwiseFeedForward">>, <<>>)
    /\ Advance(c, TRUE)
    /\ UNCHANGED <<layer, with_perftools, input_tensor_copy, temp_tensor,
                   entry, smVars>>

\* A tensor of the given shape whose element i is val[i]
Filled(shape, val) ==
    [shape |-> shape, data |-> [i \in 0..(Prod(shape) - 1) |-> val[i]]]
Idx == 0..(MaxBatch + 1) * MaxSeq * (MaxModelDim + MaxDff + 1)

\* The layer after loading: dense_weight_1_ is [model_dim, d_ff], or
\* [d_ff, model_dim] when stored transposed; dense_weight_2_ is the reverse
\* (w2 = "ok"), or has a d_ff or a model_dim one too large.
W2Kinds == {"ok", "bad_dff", "bad_model"}
LayerOf(Dw, F, trans, w2, zero) ==
    LET F2 == IF w2 = "bad_dff" THEN F + 1 ELSE F
        D2 == IF w2 = "bad_model" THEN Dw + 1 ELSE Dw
    IN [dense_weight_1_ |->
            Filled(IF trans THEN <<F, Dw>> ELSE <<Dw, F>>,
                   [i \in Idx |-> IF zero THEN 0 ELSE 1 - (i % 3)]),
        dense_bias_1_ |->
            Filled(<<F>>, [i \in Idx |-> IF zero THEN 0 ELSE FUnit \div 2]),
        dense_weight_2_ |->
            Filled(IF trans THEN <<D2, F2>> ELSE <<F2, D2>>,
                   [i \in Idx |-> IF zero THEN 0 ELSE 1 + (i % 2)]),
        dense_bias_2_ |->
            Filled(<<Dw>>,
                   [i \in Idx |-> IF zero THEN 0 ELSE (i + 1) * (FUnit \div 4)]),
        layer_norm_weight_ |-> Filled(<<Dw>>, [i \in Idx |-> 1 + (i % 2)]),
        layer_norm_bias_ |-> Filled(<<Dw>>, [i \in Idx |-> 10 * (i % 2) - 5])]

\* The tensors of the calls: call c's input is [B, S, D] with distinct
\* contents; its output is an empty tensor ("fresh"), a larger tensor with
\* contents ("larger"), or the input tensor itself ("alias").
OutKinds == {"fresh", "larger", "alias"}
InputOf(c, shape) == Filled(shape, [i \in Idx |-> (((i + c) % 4) - 1) * FUnit])
OutputOf(c, shape, kind) ==
    IF kind = "larger"
    THEN Filled(<<shape[1] + 1, shape[2], shape[3]>>,
                [i \in Idx |-> 5 * FUnit + i + c])
    ELSE NullTensor

\* n calls enter operator() on one layer, call c with an input of shape
\* shapes[c]
FFNSetup(n, Dw, F, trans, w2, zero, shapes, kind, perf) ==
    /\ layer = LayerOf(Dw, F, trans, w2, zero)
    /\ with_perftools = perf
    /\ profiler = ProfilerIdle
    /\ tensors = [id \in 1..(2 * n) |->
                    IF id % 2 = 1 THEN InputOf((id + 1) \div 2, shapes[(id + 1) \div 2])
                    ELSE OutputOf(id \div 2, shapes[id \div 2], kind)]
    /\ call = [c \in 1..n |->
                 [pc |-> "validate",
                  input |-> InId(c),
                  output |-> IF kind = "alias" THEN InId(c) ELSE OutId(c),
                  is_trans_weight |-> trans,
                  trace |-> <<>>]]
    /\ input_tensor_copy = [c \in 1..n |-> NullTensor]
    /\ temp_tensor = [c \in 1..n |-> NullTensor]
    /\ entry = [tensors |-> tensors, layer |-> layer]

\* one call, any layer and any input
FFNInit ==
    /\ SmIdle
    /\ \E Dw \in 1..MaxModelDim, F \in 1..MaxDff, trans \in BOOLEAN,
          w2 \in W2Kinds, zero \in BOOLEAN, B \in 1..MaxBatch, S \in 1..MaxSeq,
          D \in 1..MaxModelDim, kind \in OutKinds, perf \in BOOLEAN :
          FFNSetup(1, Dw, F, trans, w2, zero, <<<<B, S, D>>>>, kind, perf)

\* NumCalls concurrent calls on a well-formed layer of the largest
\* dimensions, with inputs of different batch sizes; the first call's input
\* may have the wrong model dimension.
FFNConcInit ==
    /\ SmIdle
    /\ \E trans \in BOOLEAN, D1 \in 1..MaxModelDim, kind \in OutKinds,
          perf \in BOOLEAN :
          FFNSetup(NumCalls, MaxModelDim, MaxDff, trans, "ok", FALSE,
                   [c \in 1..NumCalls |->
                      <<1 + (c % MaxBatch), MaxSeq,
                        IF c = 1 THEN D1 ELSE MaxModelDim>>],
                   kind, perf)

FFNNext ==
    \/ \E c \in Calls : Validate(c)
    \/ \E c \in Calls : StageBuffers(c)
    \/ \E c \in Calls : CopyInput(c)
    \/ \E c \in Calls : ReshapeOutput(c)
    \/ \E c \in Calls : LayerNormStep(c)
    \/ \E c \in Calls : Gemm0(c)
    \/ \E c \in Calls : AddBiasActStep(c)
    \/ \E c \in Calls : Gemm1(c)
    \/ \E c \in Calls : AddInputBiasStep(c)

FFNSpec == FFNInit /\ [][FFNNext]_vars
FFNConcSpec == FFNConcInit /\ [][FFNNext]_vars

(***************************************************************************)
(* Properties of SoftmaxMask                                               *)
(***************************************************************************)
Done(i) == row_pc[i] = "done"
AllDone == \A i \in Rows : Done(i)
\* the row of query position q of head h of batch element b in the logical
\* shape [batch, heads, query_positions, key_positions]
RowOf(b, h, q) == (b * head_num + h) * seq_len + q
Batches == 0..(batch_size - 1)
Heads == 0..(head_num - 1)
\* 1e-4
Tol == Scale \div 10^4
RowFinite(i) == \A j \in Cols : IsFinite(qk_buf[QkIdx(i, j)])
\* the sum of row i of the score buffer
RowSum(i) == SumRow(qk_buf, i)
\* the sum of the exponentials of row i of the input
RECURSIVE ExpSumFrom(_, _)
ExpSumFrom(i, j) ==
    IF j = N THEN 0
    ELSE FAdd(ExpElem(qk_in, attr_mask, i, j), ExpSumFrom(i, j + 1))
ExpSum(i) == ExpSumFrom(i, 0)
NearOne(x) == IsFinite(x) /\ x >= Scale - Tol /\ x <= Scale + Tol

\* C3: the mask slice a row reads is mask[b, 0..seq_len) of the row's batch
\* element b; a suppressing mask value at key position k of batch element b
\* makes column k of every finished row of every head and query position of b
\* (approximately) zero, and leaves column k of the rows of the other batch
\* elements, where their own mask allows k and nothing overflows, well above
\* zero.
C3_MaskBroadcast ==
    \A b \in Batches : \A h \in Heads : \A q \in Cols :
        LET i == RowOf(b, h, q) IN
        /\ row_pc[i] \in {"sum", "norm", "done"} =>
              acc[i].mask = {b * seq_len + k : k \in Cols}
        /\ Done(i) =>
              \A k \in Cols :
                  attr_mask[b * seq_len + k] = MaskSuppress =>
                      /\ IsFinite(qk_buf[i * seq_len + k])
                      /\ qk_buf[i * seq_len + k] <= Tol
                      /\ \A b2 \in Batches \ {b} :
                            attr_mask[b2 * seq_len + k] = MaskAllow =>
                                \A h2 \in Heads : \A q2 \in Cols :
                                    LET i2 == RowOf(b2, h2, q2) IN
                                    (Done(i2) /\ RowFinite(i2))
                                    => qk_buf[i2 * seq_len + k] > Tol

\* C3's case: two batch elements, two heads, key position 1 of batch element
\* 1 alone suppressed; the last row of batch 1 has column 1 at zero, the last
\* row of batch 0 has not.
C3_Witness ==
    /\ batch_size = 2 /\ head_num = 2 /\ seq_len = 2
    /\ AllDone
    /\ attr_mask[3] = MaskSuppress /\ attr_mask[1] = MaskAllow
    /\ qk_buf[QkIdx(RowOf(1, 1, 1), 1)] = 0
    /\ qk_buf[QkIdx(RowOf(0, 1, 1), 1)] > Tol

\* the terms of row i are all near zero (at most 1e-2)
AllTermsNearZero(i) ==
    \A j \in Cols :
        LET e == ExpElem(qk_in, attr_mask, i, j) IN
        IsFinite(e) /\ e <= Scale \div 100

C4_SmallTermsRow ==
    \E i \in Rows : /\ Done(i)
                     /\ ExpSum(i) > 0 /\ ExpSum(i) < Scale \div 50
                     /\ ~NearOne(RowSum(i)) /\ RowSum(i) > Tol

\* the rows processed one after the other, i = from..M-1
RECURSIVE SoftmaxSeqFrom(_, _)
SoftmaxSeqFrom(buf, from) ==
    IF from >= M THEN buf
    ELSE LET e == ExpRow(buf, attr_mask, from) IN
         SoftmaxSeqFrom(NormRow(e, from, SumRow(e, from)), from + 1)

\* C6: iteration i touches only the scores [i*seq_len, (i+1)*seq_len) and the
\* mask values [b*seq_len, (b+1)*seq_len), b = i/(heads*seq_len), all inside
\* the buffers, and when all iterations have finished, in whatever order and
\* interleaving over the threads, the buffer is what the rows processed one
\* after the other give.
C6_RowIndependence ==
    /\ \A i \in Rows :
          LET b == i \div (head_num * seq_len) IN
          /\ acc[i].qk \subseteq (i * seq_len)..((i + 1) * seq_len - 1)
          /\ acc[i].qk \subseteq DOMAIN qk_buf
          /\ acc[i].mask \subseteq (b * seq_len)..((b + 1) * seq_len - 1)
          /\ acc[i].mask \subseteq DOMAIN attr_mask
          /\ row_pc[i] \notin {"sum", "norm"} => sum[i] = 0
    /\ AllDone => qk_buf = SoftmaxSeqFrom(qk_in, 0)

\* C6's case: two threads are in the middle of two different rows at once,
\* one of them holding its partial sum.
C6_Witness ==
    \E i \in Rows : \E i2 \in Rows \ {i} :
        /\ row_pc[i] = "norm" /\ row_pc[i2] = "sum"
        /\ sum[i] > 0
        /\ acc[i].qk # {} /\ acc[i2].mask # {}

(***************************************************************************)
(* Properties of PositionwiseFeedForward::operator()                       *)
(***************************************************************************)
\* the input and the output of call c as they were at entry
EntryIn(c) == entry.tensors[call[c].input]
EntryOut(c) == entry.tensors[call[c].output]
Aliased(c) == call[c].output = call[c].input
\* call c has run (or failed in) the stage
Ran(c, stage) == \E k \in DOMAIN call[c].trace : call[c].trace[k] = stage
AllZero(t) == \A i \in DOMAIN t.data : t.data[i] = 0
ZeroWeights ==
    /\ AllZero(layer.dense_weight_1_) /\ AllZero(layer.dense_weight_2_)
    /\ AllZero(layer.dense_bias_1_) /\ AllZero(layer.dense_bias_2_)
\* the model dimension and d_ff of dense_weight_1 under the call's flag
WeightModelDim(c) ==
    layer.dense_weight_1_.shape[IF call[c].is_trans_weight THEN 2 ELSE 1]
WeightDff(c) ==
    layer.dense_weight_1_.shape[IF call[c].is_trans_weight THEN 1 ELSE 2]

\* C1: a call whose dense_weight_1 model dimension differs from
\* input.shape(2) gets no further than the validation: no temporary is
\* allocated, and its input and output tensors are as at entry.
C1_MismatchFailsAtValidation ==
    \A c \in Calls :
        WeightModelDim(c) # EntryIn(c).shape[3] =>
            /\ call[c].pc \in {"validate", "failed"}
            /\ call[c].pc = "failed" => call[c].trace = <<"validate">>
            /\ input_tensor_copy[c] = NullTensor
            /\ temp_tensor[c] = NullTensor
            /\ tensors[call[c].input] = EntryIn(c)
            /\ tensors[call[c].output] = EntryOut(c)

\* C1's case: a mismatching call has failed, and its output tensor still
\* holds its prior contents.
C1_Witness ==
    \E c \in Calls :
        /\ WeightModelDim(c) # EntryIn(c).shape[3]
        /\ call[c].pc = "failed"
        /\ ~Aliased(c)
        /\ Numel(tensors[call[c].output]) > 0

\* C2: with zero dense weights and biases, the output of a finished call is
\* its input, element for element.
C2_ZeroWeightsResidual ==
    \A c \in Calls :
        (ZeroWeights /\ call[c].pc = "done") =>
            /\ tensors[call[c].output].shape = EntryIn(c).shape
            /\ tensors[call[c].output].data = EntryIn(c).data

\* C2's case: zero weights, a finished call on a non-zero input and a
\* separate output tensor that held other contents.
C2_Witness ==
    \E c \in Calls :
        /\ ZeroWeights /\ call[c].pc = "done" /\ ~Aliased(c)
        /\ ~AllZero(EntryIn(c))
        /\ Numel(EntryOut(c)) > 0
        /\ ~AllZero(layer.layer_norm_bias_)
        /\ tensors[call[c].output].data = EntryIn(c).data

\* C5 as stated: the input tensor of a call is as at entry, at every step and
\* for every output tensor.
C5_InputNeverMutated ==
    \A c \in Calls : tensors[call[c].input] = EntryIn(c)

\* C5, amended: the input tensor is as at entry at every step when the output
\* is another tensor, and until the residual fuse has run when the output is
\* the input tensor itself.
C5_InputKeptUnlessAliased ==
    \A c \in Calls :
        (~Aliased(c) \/ call[c].pc # "done") =>
            tensors[call[c].input] = EntryIn(c)

\* C5's case: a finished call with a separate output that differs from the
\* input, the input untouched.
C5_Witness ==
    \E c \in Calls :
        /\ call[c].pc = "done" /\ ~Aliased(c)
        /\ tensors[call[c].output].data # EntryIn(c).data
        /\ tensors[call[c].input] = EntryIn(c)

\* C7: once staged, the expansion buffer is [B*S, d_ff]; once reshaped, and so
\* in every finished call, the output is [B, S, D], whatever it was before.
C7_ShapePreservation ==
    \A c \in Calls :
        /\ (Ran(c, "stage") /\ WeightModelDim(c) = EntryIn(c).shape[3]) =>
              temp_tensor[c].shape =
                  <<EntryIn(c).shape[1] * EntryIn(c).shape[2], WeightDff(c)>>
        /\ Ran(c, "reshape_output") =>
              /\ tensors[call[c].output].shape = EntryIn(c).shape
              /\ DOMAIN tensors[call[c].output].data
                     = 0..(Prod(EntryIn(c).shape) - 1)
        /\ call[c].pc = "done" =>
              (Ran(c, "stage") /\ Ran(c, "reshape_output"))

\* C7's case: a finished call with transposed weights, d_ff different from
\* model_dim, and an output tensor that had another shape.
C7_Witness ==
    \E c \in Calls :
        /\ call[c].pc = "done" /\ call[c].is_trans_weight
        /\ WeightDff(c) # WeightModelDim(c)
        /\ EntryOut(c).shape # EntryIn(c).shape
        /\ Numel(EntryOut(c)) > 0
        /\ tensors[call[c].output].shape = EntryIn(c).shape

\* C8 as stated: a call that fails has failed in the validation, with no
\* temporary allocated and the output tensor as at entry.
C8_FailsOnlyAtValidation ==
    \A c \in Calls :
        call[c].pc = "failed" =>
            /\ call[c].trace = <<"validate">>
            /\ input_tensor_copy[c] = NullTensor
            /\ temp_tensor[c] = NullTensor
            /\ tensors[call[c].output] = EntryOut(c)

\* What the stages of call c make of its input at entry: the normalized
\* input, its projection to d_ff, and that with bias_1 and the activation
RefNorm(c) ==
    LayerNorm(layer.layer_norm_weight_, layer.layer_norm_bias_, EntryIn(c))
RefUp(c) ==
    MatMul(RefNorm(c), layer.dense_weight_1_, call[c].is_trans_weight,
           Filled(<<EntryIn(c).shape[1] * EntryIn(c).shape[2], WeightDff(c)>>,
                  [i \in Idx |-> 0]))
RefAct(c) == AddBiasAct(layer.dense_bias_1_, RefUp(c))
\* The buffers of call c hold what the stages before its position produced:
\* the copy of the input, then its normalization until project-down, then the
\* projection of the expansion buffer; the expansion buffer the projection of
\* the normalized input, then that with bias_1 and the activation; the output
\* of a finished call the input at entry plus the project-down result plus
\* bias_2.
DataFlow(c) ==
    LET pc == call[c].pc IN
    /\ pc \in {"reshape_output", "layer_norm"} =>
          input_tensor_copy[c].data = EntryIn(c).data
    /\ pc \in {"gemm0", "add_bias_act", "gemm1"} =>
          input_tensor_copy[c].data = RefNorm(c).data
    /\ pc = "add_bias_act" => temp_tensor[c].data = RefUp(c).data
    /\ pc \in {"gemm1", "add_input_bias", "done"} =>
          temp_tensor[c].data = RefAct(c).data
    /\ pc \in {"add_input_bias", "done"} =>
          input_tensor_copy[c].data
              = MatMul(temp_tensor[c], layer.dense_weight_2_,
                       call[c].is_trans_weight, EntryIn(c)).data
    /\ pc = "done" =>
          tensors[call[c].output].data
              = AddInputBias(EntryIn(c), input_tensor_copy[c],
                             layer.dense_bias_2_)

\* the stages the claim names
ClaimedOrder ==
    <<"validate", "stage", "copy", "layer_norm", "gemm0", "add_bias_act",
      "gemm1", "add_input_bias">>
IsClaimedStage(s) == s # "reshape_output"
IsPrefix(p, q) == Len(p) <= Len(q) /\ SubSeq(q, 1, Len(p)) = p

\* C10: the stages of a call run in the fixed order, each once, all of them
\* in a finished call, and each finds the output of its predecessor: the
\* normalized copy is there until project-down overwrites it.
C10_PipelineOrder ==
    \A c \in Calls :
        /\ IsPrefix(SelectSeq(call[c].trace, IsClaimedStage), ClaimedOrder)
        /\ call[c].pc = "done" =>
              SelectSeq(call[c].trace, IsClaimedStage) = ClaimedOrder
        /\ call[c].pc # "failed" => DataFlow(c)

\* C10's case: a finished call with non-zero weights, whose project-down
\* result differs from the normalized copy and whose output differs from the
\* input.
C10_Witness ==
    \E c \in Calls :
        /\ call[c].pc = "done" /\ ~ZeroWeights
        /\ input_tensor_copy[c].data # RefNorm(c).data
        /\ RefNorm(c).data # EntryIn(c).data
        /\ ~AllZero(temp_tensor[c])
        /\ tensors[call[c].output].data # EntryIn(c).data
        /\ Len(call[c].trace) = Len(ClaimedOrder) + 1

\* the output tensor of call c is what the call alone makes of it
OutputFlow(c) ==
    IF call[c].pc = "done"
    THEN tensors[call[c].output].shape = EntryIn(c).shape
    ELSE IF Ran(c, "reshape_output")
    THEN tensors[call[c].output] = Reshape(EntryOut(c), EntryIn(c).shape)
    ELSE tensors[call[c].output] = EntryOut(c)

\* C9, amended: in every interleaving of the calls, the weights and biases
\* are as loaded, every call's temporaries and output are what the call alone
\* makes of its own input, its input is untouched (until the residual fuse
\* when it is also the output), and the process's profiler is untouched in a
\* build without WITH_PERFTOOLS.
C9_CallsIndependent ==
    /\ layer = entry.layer
    /\ ~with_perftools => profiler = ProfilerIdle
    /\ \A c \in Calls :
          /\ call[c].pc # "failed" => DataFlow(c)
          /\ OutputFlow(c)
          /\ (~Aliased(c) \/ call[c].pc # "done") =>
                tensors[call[c].input] = EntryIn(c)
          /\ Ran(c, "stage") =>
                /\ input_tensor_copy[c].shape = EntryIn(c).shape
                /\ temp_tensor[c].shape # <<>>
          /\ ~Ran(c, "stage") =>
                (input_tensor_copy[c] = NullTensor /\ temp_tensor[c] = NullTensor)

\* C9 as stated: the same, and no step of any call touches process-wide
\* mutable state.
C9_NoSharedStateTouched ==
    /\ C9_CallsIndependent
    /\ profiler = ProfilerIdle

\* C9's case: two calls are both in the middle of the pipeline, at different
\* stages, each with its own temporaries in use.
C9_Witness ==
    \E c \in Calls : \E c2 \in Calls \ {c} :
        /\ call[c].pc = "gemm1" /\ call[c2].pc = "add_bias_act"
        /\ input_tensor_copy[c].data # input_tensor_copy[c2].data
        /\ ~AllZero(temp_tensor[c]) /\ ~AllZero(temp_tensor[c2])

====
